---- MODULE Spec2Model ----
(***************************************************************************)
(* Smartlog commit graph of git-branchless (branchless/graph.py).          *)
(*                                                                         *)
(* An OID is a positive integer; None is 0.  The repository is `repo`, a   *)
(* sequence whose i-th element is the ordered parent list (parent_ids) of  *)
(* commit i.  Commits are numbered in an order compatible with ancestry    *)
(* (a parent has a smaller number than its child), which every commit DAG  *)
(* admits, so the numbering loses no history shape.  Among such numberings *)
(* the one taken puts master and its ancestors first.                      *)
(***************************************************************************)
EXTENDS Integers, Sequences, FiniteSets, TLC

VARIABLES
    repo,           \* the object store: parent list of every commit
    master_oid,     \* target of the master branch
    head_oid,       \* target of HEAD
    branch_oids,    \* targets of the local branches
    visibility,     \* event replayer: "none", "visible" or "hidden" per commit
    merge_base_db,  \* merge-base answers given so far: commit -> merge-base with master
    graph,          \* the CommitGraph under construction: oid -> Node
    pc,             \* position in make_graph / find_path_to_merge_base
    path_args,      \* arguments of the find_path_to_merge_base call under way
    queue,          \* its queue of paths
    path_result     \* its return value

vars == <<repo, master_oid, head_oid, branch_oids, visibility,
          merge_base_db, graph, pc, path_args, queue, path_result>>

None == 0

\* Number of commits of the repositories with an event log.
NumCommits == 4
\* Number of commits of the repositories whose event log is empty.
NumCommitsNoEvents == 5
\* Number of commits of the repositories searched by find_path_to_merge_base alone.
NumCommitsPath == 4
\* Largest number of parents of a commit (2: ordinary merge commits).
MaxParents == 2
\* Largest number of local branches (master included).
MaxBranches == 2
\* Largest number of commits with a recorded event.
MaxEvents == 2

Range(s) == {s[i] : i \in 1..Len(s)}

(***************************************************************************)
(* The object store: commits and their parent lists.                       *)
(***************************************************************************)
Commits(r) == 1..Len(r)

\* The parent lists commit i can have: distinct older commits, in order.
ParentLists(i) ==
    {<<>>}
    \cup { <<p>> : p \in 1..(i - 1) }
    \cup (IF MaxParents >= 2
          THEN { <<p, q>> : p \in 1..(i - 1), q \in 1..(i - 1) } \ { <<p, p>> : p \in 1..(i - 1) }
          ELSE {})
    \cup (IF MaxParents >= 3
          THEN { s \in [1..3 -> 1..(i - 1)] : Cardinality(Range(s)) = 3 }
          ELSE {})

RECURSIVE Repos(_)
Repos(n) == IF n = 0 THEN {<<>>}
            ELSE { Append(r, pl) : r \in Repos(n - 1), pl \in ParentLists(n) }

\* commit.parents / commit.parent_ids
Parents(r, c) == r[c]

RECURSIVE Ancestors(_, _)
\* c and every commit reachable from c through parent links.
Ancestors(r, c) == {c} \cup UNION { Ancestors(r, Parents(r, c)[i]) : i \in 1..Len(Parents(r, c)) }

(***************************************************************************)
(* The merge-base database (branchless/mergebase.py, a collaborator of     *)
(* graph.py): a nearest common ancestor of two commits, or None.  When two *)
(* commits have several nearest common ancestors the database answers with *)
(* one of them; which one is not fixed here.                               *)
(***************************************************************************)
MergeBases(r, lhs, rhs) ==
    LET common == Ancestors(r, lhs) \cap Ancestors(r, rhs)
    IN  { m \in common : \A x \in common \ {m} : m \notin Ancestors(r, x) }

get_merge_base_oid(r, lhs, rhs) ==
    IF MergeBases(r, lhs, rhs) = {} THEN {None} ELSE MergeBases(r, lhs, rhs)

(***************************************************************************)
(* find_path_to_merge_base: breadth-first search over paths.               *)
(* The result None is written NoPath (a path is never empty).              *)
(***************************************************************************)
NoPath == <<>>

\* PutParents with the queue used as a stack: the new paths go to the front.
PutParentsFront(r, q, path) ==
    LET ps == Parents(r, path[Len(path)])
    IN  [i \in 1..Len(ps) |-> Append(path, ps[i])] \o q

\* queue.put(path + [parent]) for each parent of the last commit of path
PutParents(r, q, path) ==
    LET ps == Parents(r, path[Len(path)])
    IN  q \o [i \in 1..Len(ps) |-> Append(path, ps[i])]

\* The queue after one iteration of the while loop that does not return.
QueueAfterStep(r, q, target_oid, merge_base_oid) ==
    LET path == Head(q)
    IN  IF path[Len(path)] = merge_base_oid
        THEN Tail(q)
        ELSE PutParents(r, Tail(q), path)

RECURSIVE PathLoop(_, _, _, _)
PathLoop(r, q, target_oid, merge_base_oid) ==
    IF q = <<>> THEN NoPath
    ELSE IF Head(q)[Len(Head(q))] = target_oid THEN Head(q)
    ELSE PathLoop(r, QueueAfterStep(r, q, target_oid, merge_base_oid),
                  target_oid, merge_base_oid)

\* merge_base_oid is the merge-base database's answer for (commit_oid, target_oid).
find_path_to_merge_base(r, commit_oid, target_oid, merge_base_oid) ==
    PathLoop(r, << <<commit_oid>> >>, target_oid, merge_base_oid)

(***************************************************************************)
(* The event replayer (branchless/eventlog.py, a collaborator of           *)
(* graph.py): a commit is active when it has a recorded event, and only    *)
(* then does it have a visibility.                                         *)
(***************************************************************************)
get_active_oids(vis) == { c \in DOMAIN vis : vis[c] # "none" }

get_commit_visibility(vis, oid) == vis[oid]

(***************************************************************************)
(* _walk_from_commits                                                      *)
(* A Node is a record; its `commit` is the key it is stored under, and its *)
(* `event` (display metadata only) is left out.                            *)
(***************************************************************************)
EmptyGraph == [oid \in {} |-> None]

\* NewNode that never marks a node as a master node.
NewNodeNeverMaster(vis, current_oid, merge_base_oid) ==
    [ parent     |-> None,
      children   |-> {},
      is_master  |-> FALSE,
      is_visible |-> IF get_commit_visibility(vis, current_oid) = "hidden" THEN FALSE ELSE TRUE ]

NewNode(vis, current_oid, merge_base_oid) ==
    [ parent     |-> None,
      children   |-> {},
      is_master  |-> IF merge_base_oid # None THEN current_oid = merge_base_oid ELSE FALSE,
      is_visible |-> IF get_commit_visibility(vis, current_oid) = "hidden" THEN FALSE ELSE TRUE ]

\* graph[oid] = node
PutNode(g, oid, node) == [k \in DOMAIN g \cup {oid} |-> IF k = oid THEN node ELSE g[k]]

RECURSIVE AddPath(_, _, _, _, _)
\* AddPath that stops one commit short of the end of the path.
AddPathDropLast(g, vis, path, i, merge_base_oid) ==
    IF i >= Len(path) THEN g
    ELSE IF path[i] \in DOMAIN g THEN g
    ELSE AddPath(PutNode(g, path[i], NewNode(vis, path[i], merge_base_oid)),
                 vis, path, i + 1, merge_base_oid)

\* for current_commit in path_to_merge_base: ... (from the i-th commit on)
AddPath(g, vis, path, i, merge_base_oid) ==
    IF i > Len(path) THEN g
    ELSE IF path[i] \in DOMAIN g THEN g
    ELSE AddPath(PutNode(g, path[i], NewNode(vis, path[i], merge_base_oid)),
                 vis, path, i + 1, merge_base_oid)

\* One iteration of `for commit_oid_hex in commit_oids`.  merge_base_oid is the
\* database's answer for (commit, master), inner_oid its answer inside
\* find_path_to_merge_base for (commit, merge_base_oid).
WalkCommit(r, vis, g, commit_oid, merge_base_oid, inner_oid) ==
    LET path == IF merge_base_oid = None THEN <<commit_oid>>
                ELSE find_path_to_merge_base(r, commit_oid, merge_base_oid, inner_oid)
    IN  IF path = NoPath THEN g
        ELSE AddPath(g, vis, path, 1, merge_base_oid)

\* link that sets the child's parent and forgets the parent's children set.
linkParentOnly(g, parent_oid, child_oid) ==
    [g EXCEPT ![child_oid].parent = parent_oid]

link(g, parent_oid, child_oid) ==
    [g EXCEPT ![child_oid].parent = parent_oid,
              ![parent_oid].children = @ \cup {child_oid}]

RECURSIVE LinkParents(_, _, _, _)
\* for parent_oid in node.commit.parent_ids: ... (from the i-th parent on)
LinkParents(g, r, oid, i) ==
    IF i > Len(Parents(r, oid)) THEN g
    ELSE LinkParents(IF Parents(r, oid)[i] \in DOMAIN g
                     THEN link(g, Parents(r, oid)[i], oid)
                     ELSE g,
                     r, oid, i + 1)

RECURSIVE LinkNodes(_, _, _)
\* for oid, node in graph.items(): ...  The nodes are taken in increasing order;
\* an iteration changes only the parent of its own node and adds to children
\* sets, so the order of the nodes does not show in the result.
LinkNodes(g, r, todo) ==
    IF todo = {} THEN g
    ELSE LET oid == CHOOSE x \in todo : \A y \in todo : x <= y
         IN  LinkNodes(IF g[oid].is_master THEN g ELSE LinkParents(g, r, oid, 1),
                       r, todo \ {oid})

LinkGraph(g, r) == LinkNodes(g, r, DOMAIN g)

(***************************************************************************)
(* _hide_commits                                                           *)
(* should_hide(oid) looks nodes up in the graph (graph[oid]), which raises *)
(* KeyError for an oid that is not a key, and goes through a children set  *)
(* in that set's iteration order, which the language does not fix.  Its    *)
(* model is therefore the set of outcomes a call can have: "true",         *)
(* "false" or "KeyError".  The lru_cache only saves repeated evaluation.   *)
(***************************************************************************)
\* all(outcome of c for c in cs) for an arbitrary iteration order of cs: it
\* raises if some element can be reached first and raises, is False if some
\* element can be reached first and is False, and is True if all are True.
\* outs[c] = {} stands for an element the generator's filter skips.
\* AllOf that does not look at the elements.
AllOfVacuous(outs) == {"true"}

AllOf(outs) ==
    (IF \E c \in DOMAIN outs : "KeyError" \in outs[c] THEN {"KeyError"} ELSE {})
    \cup (IF \E c \in DOMAIN outs : "false" \in outs[c] THEN {"false"} ELSE {})
    \cup (IF \A c \in DOMAIN outs : outs[c] \subseteq {"true"} THEN {"true"} ELSE {})

RECURSIVE should_hide(_, _, _)
should_hide(g, unhideable_oids, oid) ==
    IF oid \in unhideable_oids THEN {"false"}
    ELSE IF oid \notin DOMAIN g THEN {"KeyError"}
    ELSE IF g[oid].is_master
    THEN IF ~g[oid].is_visible THEN {"false"}
         ELSE AllOf([child_oid \in g[oid].children |->
                        IF child_oid \notin DOMAIN g THEN {"KeyError"}
                        ELSE IF g[child_oid].is_master THEN {}
                        ELSE should_hide(g, unhideable_oids, child_oid)])
    ELSE IF g[oid].is_visible THEN {"false"}
         ELSE AllOf([child_oid \in g[oid].children |->
                        should_hide(g, unhideable_oids, child_oid)])

\* all_oids_to_hide, when no call of should_hide raises
AllOidsToHide(g, unhideable_oids) ==
    { oid \in DOMAIN g : "true" \in should_hide(g, unhideable_oids, oid) }

\* del graph[oid]
DelNode(g, oid) == [k \in DOMAIN g \ {oid} |-> g[k]]

\* One iteration of `for oid in all_oids_to_hide`.  st.error records the
\* KeyError of set.remove for an oid that is not in the set.
HideOne(st, oid) ==
    LET parent_oid == st.g[oid].parent
        deleted    == DelNode(st.g, oid)
    IN  IF st.error THEN st
        ELSE IF parent_oid # None /\ parent_oid \in DOMAIN deleted
        THEN IF oid \in deleted[parent_oid].children
             THEN [g |-> [deleted EXCEPT ![parent_oid].children = @ \ {oid}], error |-> FALSE]
             ELSE [g |-> deleted, error |-> TRUE]
        ELSE [g |-> deleted, error |-> FALSE]

RECURSIVE HideAll(_, _)
\* for oid in all_oids_to_hide: ...  The oids are taken in increasing order:
\* whether a parent is still a key when its child is deleted changes which
\* children sets are updated, but those of deleted nodes are gone in the end.
HideAll(st, todo) ==
    IF todo = {} THEN st
    ELSE LET oid == CHOOSE x \in todo : \A y \in todo : x <= y
         IN  HideAll(HideOne(st, oid), todo \ {oid})

\* Unhideable without HEAD.
UnhideableBranches(branches, head) == branches

\* unhideable_oids = branch_oids | {head_oid.hex}
Unhideable(branches, head) == branches \cup {head}

\* The outcomes of one call of _hide_commits: the graph it leaves, and whether
\* it raised.
HideCommitsOutcomes(g, unhideable_oids) ==
    LET outs == [oid \in DOMAIN g |-> should_hide(g, unhideable_oids, oid)]
    IN  (IF \E oid \in DOMAIN g : "KeyError" \in outs[oid]
         THEN {[g |-> g, error |-> TRUE]} ELSE {})
        \cup
        (IF \A oid \in DOMAIN g : outs[oid] # {"KeyError"}
         THEN {HideAll([g |-> g, error |-> FALSE], AllOidsToHide(g, unhideable_oids))}
         ELSE {})

(***************************************************************************)
(* make_graph as a state machine.                                          *)
(***************************************************************************)
Visibilities == {"none", "visible", "hidden"}

\* The local branches: master and at most MaxBranches - 1 others.
BranchSets(r, master) ==
    { {master} \cup e : e \in { x \in SUBSET Commits(r) : Cardinality(x) <= MaxBranches - 1 } }

NoCall == [commit_oid |-> None, target_oid |-> None, merge_base_oid |-> None]

InitRefs ==
    /\ master_oid \in Commits(repo)
    /\ Ancestors(repo, master_oid) = 1..master_oid
    /\ head_oid \in Commits(repo)
    /\ branch_oids \in BranchSets(repo, master_oid)
    /\ merge_base_db = EmptyGraph
    /\ graph = EmptyGraph
    /\ pc = "walk"
    /\ path_args = NoCall
    /\ queue = <<>>
    /\ path_result = NoPath

\* A repository with an event log, and HEAD on a branch tip or, when master
\* is the only branch, detached.
Init ==
    /\ repo \in Repos(NumCommits)
    /\ visibility \in { v \in [Commits(repo) -> Visibilities] :
                            Cardinality(get_active_oids(v)) <= MaxEvents }
    /\ InitRefs
    /\ head_oid \in branch_oids \/ branch_oids = {master_oid}

\* A larger repository whose event log is empty, HEAD anywhere.
InitNoEvents ==
    /\ repo \in Repos(NumCommitsNoEvents)
    /\ visibility = [c \in Commits(repo) |-> "none"]
    /\ InitRefs

\* commit_oids of make_graph
CommitOids == get_active_oids(visibility) \cup branch_oids \cup {head_oid}

Walked == DOMAIN merge_base_db

\* _walk_from_commits: the loop iteration for commit_oid, taken from the set
\* commit_oids in any order; the last iteration is followed by the linking
\* loop and the return of the graph.
Walk(commit_oid) ==
    /\ pc = "walk"
    /\ commit_oid \in CommitOids \ Walked
    /\ \E m \in get_merge_base_oid(repo, commit_oid, master_oid) :
         \E inner \in (IF m = None THEN {None} ELSE get_merge_base_oid(repo, commit_oid, m)) :
            LET g == WalkCommit(repo, visibility, graph, commit_oid, m, inner)
            IN  /\ graph' = IF Walked \cup {commit_oid} = CommitOids
                            THEN LinkGraph(g, repo) ELSE g
                /\ merge_base_db' = PutNode(merge_base_db, commit_oid, m)
    /\ pc' = IF Walked \cup {commit_oid} = CommitOids THEN "built" ELSE "walk"
    /\ UNCHANGED <<repo, master_oid, head_oid, branch_oids, visibility,
                   path_args, queue, path_result>>

\* _hide_commits: on the built graph (make_graph with hide_commits = True; with
\* hide_commits = False make_graph returns the graph as built), and again on
\* its own result with the same unhideable set.
HideCommits ==
    /\ pc \in {"built", "pruned"}
    /\ \E out \in HideCommitsOutcomes(graph, Unhideable(branch_oids, head_oid)) :
         /\ graph' = out.g
         /\ pc' = IF out.error THEN "KeyError" ELSE "pruned"
    /\ UNCHANGED <<repo, master_oid, head_oid, branch_oids, visibility, merge_base_db,
                   path_args, queue, path_result>>

Next ==
    \/ \E commit_oid \in Commits(repo) : Walk(commit_oid)
    \/ HideCommits

Spec == Init /\ [][Next]_vars

SpecNoEvents == InitNoEvents /\ [][Next]_vars

(***************************************************************************)
(* find_path_to_merge_base as a state machine: one step per iteration of   *)
(* its while loop, for any two commits of any repository.                  *)
(***************************************************************************)
InitPath ==
    /\ repo \in Repos(NumCommitsPath)
    /\ \E commit_oid \in Commits(repo), target_oid \in Commits(repo) :
         \E m \in get_merge_base_oid(repo, commit_oid, target_oid) :
            /\ path_args = [commit_oid |-> commit_oid, target_oid |-> target_oid,
                            merge_base_oid |-> m]
            /\ queue = << <<commit_oid>> >>
    /\ pc = "path_loop"
    /\ path_result = NoPath
    /\ master_oid = None
    /\ head_oid = None
    /\ branch_oids = {}
    /\ visibility = [c \in Commits(repo) |-> "none"]
    /\ merge_base_db = EmptyGraph
    /\ graph = EmptyGraph

PathUnchanged == UNCHANGED <<repo, master_oid, head_oid, branch_oids, visibility,
                             merge_base_db, graph, path_args>>

\* if path[-1].oid == target_oid: return path
PathReturn ==
    /\ pc = "path_loop"
    /\ queue # <<>>
    /\ Head(queue)[Len(Head(queue))] = path_args.target_oid
    /\ path_result' = Head(queue)
    /\ pc' = "path_done"
    /\ UNCHANGED queue
    /\ PathUnchanged

\* an iteration that goes on: the path is dropped at the merge-base, or
\* extended by each parent of its last commit
PathStep ==
    /\ pc = "path_loop"
    /\ queue # <<>>
    /\ Head(queue)[Len(Head(queue))] # path_args.target_oid
    /\ queue' = QueueAfterStep(repo, queue, path_args.target_oid, path_args.merge_base_oid)
    /\ UNCHANGED <<pc, path_result>>
    /\ PathUnchanged

\* the queue is empty: return None
PathNone ==
    /\ pc = "path_loop"
    /\ queue = <<>>
    /\ path_result' = NoPath
    /\ pc' = "path_done"
    /\ UNCHANGED queue
    /\ PathUnchanged

NextPath == PathReturn \/ PathStep \/ PathNone

SpecPath == InitPath /\ [][NextPath]_vars

(***************************************************************************)
(* Properties.                                                             *)
(***************************************************************************)
Keys == DOMAIN graph

IsMaster(oid) == graph[oid].is_master

\* A step that is the first pruning pass over a built graph.
FirstPrune == pc = "built" /\ pc' = "pruned"

RECURSIVE DescendantsOf(_, _)
\* The nodes reachable from the nodes of S through children links.
DescendantsOf(g, S) ==
    LET more == S \cup UNION { g[n].children \cap DOMAIN g : n \in S }
    IN  IF more = S THEN S ELSE DescendantsOf(g, more)

RECURSIVE ComponentOf(_, _)
\* The nodes connected to the nodes of S through parent and children links.
ComponentOf(g, S) ==
    LET more == S \cup { x \in DOMAIN g : \E n \in S :
                            \/ g[n].parent = x \/ x \in g[n].children
                            \/ g[x].parent = n \/ n \in g[x].children }
    IN  IF more = S THEN S ELSE ComponentOf(g, more)

RECURSIVE RootOf(_, _, _)
\* The node reached from oid by following parent links until a node without
\* parent, in at most `steps` steps; None if there is none.
RootOf(g, oid, steps) ==
    IF oid \notin DOMAIN g THEN None
    ELSE IF g[oid].parent = None THEN oid
    ELSE IF steps = 0 THEN None
    ELSE RootOf(g, g[oid].parent, steps - 1)

Min(S) == CHOOSE x \in S : \A y \in S : x <= y

RECURSIVE Distance(_, _, _)
\* Number of parent links of a shortest path from a to its ancestor t.
Distance(r, a, t) ==
    IF a = t THEN 0
    ELSE 1 + Min({ Distance(r, p, t) : p \in { x \in Range(Parents(r, a)) : t \in Ancestors(r, x) } })

IsParentPath(r, path) ==
    \A i \in 1..(Len(path) - 1) : path[i + 1] \in Range(Parents(r, path[i]))

\* ---- C1 ----------------------------------------------------------------
\* The scenario of C1: history M(1) <- A(2) <- B(3) <- C(4), master at M,
\* branch feature and HEAD at C, A and B hidden, after make_graph with
\* hide_commits = True.
ScenarioC1 ==
    /\ repo = << <<>>, <<1>>, <<2>>, <<3>> >>
    /\ master_oid = 1
    /\ head_oid = 4
    /\ branch_oids = {1, 4}
    /\ visibility[2] = "hidden"
    /\ visibility[3] = "hidden"
    /\ pc = "pruned"

\* C1 as stated: in the scenario the graph has exactly the keys M and C and
\* C has no parent.
C1_AsStated == ScenarioC1 => (Keys = {1, 4} /\ graph[4].parent = None)

\* C1 amended: in the scenario the hidden commits A and B are ancestors of the
\* unhideable C and stay; the graph has the keys M, A, B, C linked in a chain.
C1_ScenarioKeepsAncestors ==
    ScenarioC1 => /\ Keys = {1, 2, 3, 4}
                  /\ graph[4].parent = 3
                  /\ graph[3].parent = 2
                  /\ graph[2].parent = 1
                  /\ graph[1].parent = None

C1_Witness == ScenarioC1

\* ---- C2 ----------------------------------------------------------------
\* C2: the first pruning pass removes a non-trunk node exactly when the node
\* and every node reachable from it through children links is not visible and
\* none of them is pointed to by HEAD or a branch.
C2_PruneNonTrunkExact ==
    [][FirstPrune =>
         \A n \in Keys : ~IsMaster(n) =>
            ( (n \notin DOMAIN graph')
              <=> \A d \in DescendantsOf(graph, {n}) :
                     ~graph[d].is_visible /\ d \notin (branch_oids \cup {head_oid}) )]_vars

\* After a pruning pass: a hidden non-trunk commit has been removed, and a
\* hidden non-trunk commit has survived, either a leaf that HEAD or a branch
\* points to or a commit with a child.
C2_Witness ==
    /\ pc = "pruned"
    /\ \E n \in Commits(repo) :
          /\ visibility[n] = "hidden" /\ n \notin Keys
          /\ n \notin Ancestors(repo, master_oid)
    /\ \E k \in Keys :
          /\ ~graph[k].is_visible /\ ~IsMaster(k)
          /\ \/ graph[k].children = {} /\ k \in (branch_oids \cup {head_oid})
             \/ graph[k].children # {} /\ k \notin (branch_oids \cup {head_oid})

\* ---- C3 ----------------------------------------------------------------
\* C3: the first pruning pass removes a trunk node only if the node is marked
\* not visible, is not pointed to by HEAD or a branch, and all its non-trunk
\* children are removed too.
C3_TrunkHideRule ==
    [][FirstPrune =>
         \A n \in Keys : (IsMaster(n) /\ n \notin DOMAIN graph') =>
            /\ ~graph[n].is_visible
            /\ n \notin (branch_oids \cup {head_oid})
            /\ \A c \in graph[n].children : ~IsMaster(c) => c \notin DOMAIN graph']_vars

\* ---- C4 ----------------------------------------------------------------
\* C4: a pruning pass over an already pruned graph, with the same unhideable
\* set, completes without error and changes nothing in the graph.
C4_PruneIdempotent ==
    [][pc = "pruned" => (pc' = "pruned" /\ graph' = graph)]_vars

\* ---- C5 ----------------------------------------------------------------
\* C5: in the graph returned by the builder, the parent of every node is a key
\* and has the node among its children.
C5_BuiltBidirectional ==
    pc = "built" =>
        \A n \in Keys : graph[n].parent # None =>
            /\ graph[n].parent \in Keys
            /\ n \in graph[graph[n].parent].children

\* A built graph with a merge commit whose two parents are keys, one of them
\* its graph parent.
C5_Witness ==
    /\ pc = "built"
    /\ \E n \in Keys : /\ Len(Parents(repo, n)) = 2
                       /\ Range(Parents(repo, n)) \subseteq Keys
                       /\ graph[n].parent \in Range(Parents(repo, n))

\* ---- C6 ----------------------------------------------------------------
\* C6: with the merge-base of the two commits as cutoff, the search returns a
\* shortest path of parent links from the start to the target when the target
\* is an ancestor of the start, and None when it is not.
C6_ShortestPathOrNone ==
    pc = "path_done" =>
        /\ path_result = find_path_to_merge_base(repo, path_args.commit_oid,
                             path_args.target_oid, path_args.merge_base_oid)
        /\ IF path_args.target_oid \in Ancestors(repo, path_args.commit_oid)
           THEN /\ path_result # NoPath
                /\ path_result[1] = path_args.commit_oid
                /\ path_result[Len(path_result)] = path_args.target_oid
                /\ IsParentPath(repo, path_result)
                /\ Len(path_result) = 1 + Distance(repo, path_args.commit_oid, path_args.target_oid)
           ELSE path_result = NoPath

\* A search that returned a path of two links although the start has another
\* parent, and (in another run) a search between two commits that share only
\* an ancestor, which returned None.
C6_Witness ==
    /\ pc = "path_done"
    /\ \/ /\ Len(path_result) = 3
          /\ Len(Parents(repo, path_args.commit_oid)) = 2
       \/ /\ path_result = NoPath
          /\ path_args.merge_base_oid # None
          /\ path_args.merge_base_oid # path_args.commit_oid

\* ---- C7 ----------------------------------------------------------------
\* C7: in a built graph every trunk node has no parent, and no other trunk
\* node is connected to it through parent and children links.
C7_TrunkUniquePerComponent ==
    pc = "built" =>
        \A a \in Keys : IsMaster(a) =>
            /\ graph[a].parent = None
            /\ \A b \in ComponentOf(graph, {a}) : IsMaster(b) => b = a

\* ---- C8 ----------------------------------------------------------------
\* C8: in a built graph, following parent links from any node reaches, within
\* as many steps as there are nodes, a node without parent, and that node is a
\* trunk node or a commit that has no merge-base with master.
C8_ForestShape ==
    pc = "built" =>
        \A n \in Keys :
            LET root == RootOf(graph, n, Cardinality(Keys))
            IN  /\ root # None
                /\ IsMaster(root) \/ MergeBases(repo, root, master_oid) = {}

\* A built graph with a chain of two parent links, and a root that is not a
\* trunk node.
C8_Witness ==
    /\ pc = "built"
    /\ \E n \in Keys : /\ graph[n].parent # None
                       /\ graph[graph[n].parent].parent # None
    /\ \E r \in Keys : graph[r].parent = None /\ ~IsMaster(r)

\* ---- C9 ----------------------------------------------------------------
\* C9: after a pruning pass every parent and every child named by a surviving
\* node is a key of the graph.
C9_NoDanglingAfterPrune ==
    pc = "pruned" =>
        \A n \in Keys :
            /\ graph[n].parent # None => graph[n].parent \in Keys
            /\ graph[n].children \subseteq Keys

\* ---- C10 ---------------------------------------------------------------
\* Every non-trunk node that has a merge-base with master has a parent link.
NonTrunkHaveParents ==
    \A n \in Keys :
        (~IsMaster(n) /\ MergeBases(repo, n, master_oid) # {}) => graph[n].parent # None

\* C10 as stated: in a built graph every interesting commit that has a
\* merge-base with master is a key, the merge-base answered for it is a key
\* marked as trunk, and every non-trunk node on a path to a merge-base has a
\* parent link.
C10_AsStated ==
    pc = "built" =>
        /\ \A c \in CommitOids : merge_base_db[c] # None =>
              /\ c \in Keys
              /\ merge_base_db[c] \in Keys
              /\ IsMaster(merge_base_db[c])
        /\ NonTrunkHaveParents

\* C10 amended: as C10, but the merge-base answered for an interesting commit
\* is promised to be a key marked as trunk only when it is the commit's only
\* nearest common ancestor with master.
C10_EarlyStopMaterializes ==
    pc = "built" =>
        /\ \A c \in CommitOids : merge_base_db[c] # None =>
              /\ c \in Keys
              /\ MergeBases(repo, c, master_oid) = {merge_base_db[c]} =>
                    (merge_base_db[c] \in Keys /\ IsMaster(merge_base_db[c]))
        /\ NonTrunkHaveParents

\* A built graph with two interesting commits, one on the other's path to
\* their merge-base with master (so that the walk that comes second stops
\* early), and that merge-base a key marked as trunk.
C10_Witness ==
    /\ pc = "built"
    /\ \E c \in CommitOids, d \in CommitOids :
          /\ c # d
          /\ c \in Ancestors(repo, d)
          /\ merge_base_db[c] \notin {None, c}
          /\ merge_base_db[d] = merge_base_db[c]
          /\ merge_base_db[c] \in Keys
          /\ IsMaster(merge_base_db[c])
          /\ graph[c].parent # None

====
